---- MODULE Spec2Model ----
(***************************************************************************)
(* Model of homebridge-qingping-air-monitor: the Qingping cloud client     *)
(* (src/src/qingping/client.ts) and the Homebridge platform that keeps the *)
(* accessory set in step with the polled devices (src/unnamed/part_000).   *)
(*                                                                         *)
(* JavaScript runs each handler to its next await without interleaving, so *)
(* one action is one such run: the synchronous start of a call, or the     *)
(* continuation that a network response (or failure) resumes, together     *)
(* with everything the callers do after the awaited promise settles.       *)
(***************************************************************************)
EXTENDS Integers, Sequences, FiniteSets, TLC

(* ------------------------------ bounds --------------------------------- *)

\* longest `devices` array a response carries
MaxLen == 2
\* the clock (Date.now(), in ms) does not advance beyond this
MaxNow == 2000

(* ------------------------------ inputs --------------------------------- *)

\* amounts of time that may pass between two steps (ms)
Steps == {990, 1000}

\* access_token / expires_in values the token endpoint may answer with
Tokens == {"t1", "t2"}
ExpiresIn == {1}

\* DeviceProductId.AirMonitor
AirMonitor == 1201

\* Product ids are JSON values; numbers and strings must stay apart
\* (Array.includes and switch compare with strict equality), so a value is
\* modelled with its type.
Num(n) == [type |-> "number", num |-> n, str |-> ""]
Str(s) == [type |-> "string", num |-> 0, str |-> s]

\* Object.values(QingpingDeviceProductId): a numeric TypeScript enum compiles
\* to an object with the reverse mapping, so its values are the member name
\* and the number.
ProductIdValues == {Str("AirMonitor"), Num(AirMonitor)}

Device(mac, id, data) == [mac |-> mac, id |-> id, data |-> data]

\* the devices a response may list: two air monitors, a device whose product
\* id is the string "AirMonitor", and a device of another product
Devices ==
    { Device("B", Num(AirMonitor), 2), Device("C", Num(AirMonitor), 1),
      Device("B", Str("AirMonitor"), 1), Device("D", Num(1202), 1) }

RECURSIVE SeqsUpTo(_, _)
SeqsUpTo(S, n) ==
    IF n = 0 THEN {<<>>}
    ELSE LET shorter == SeqsUpTo(S, n - 1)
         IN  shorter \cup {Append(s, x) : s \in {t \in shorter : Len(t) = n - 1}, x \in S}

DeviceLists == SeqsUpTo(Devices, MaxLen)

\* response.body.devices of GET /v1/apis/devices: an array, or something else
GetDevicesBodies ==
    {[type |-> "array", items |-> L] : L \in DeviceLists}
      \cup {[type |-> "undefined", items |-> <<>>], [type |-> "object", items |-> <<>>]}

OauthAccess == [access_token : Tokens, expires_in : ExpiresIn]

\* this.access === undefined
NoAccess == [access_token |-> "undefined", expires_in |-> 0]

\* api.hap.uuid.generate(mac): deterministic and injective on the macs used
generate(mac) == <<"uuid", mac>>

Accessory(device) == [UUID |-> generate(device.mac), device |-> device]

\* accessories the host may have persisted from an earlier run
CachedAccessories ==
    { Accessory(Device("A", Num(AirMonitor), 1)),
      Accessory(Device("B", Num(AirMonitor), 1)),
      Accessory(Device("D", Num(1202), 1)) }

\* the calls of updateDevices() that may be in flight: the one of
\* initialize(), one of discoverDevices(), one of the interval timer
\* (a caller starts its next call once its previous one has settled)
Procs == {"initialize", "discover", "timer"}

(* ------------------------------- state --------------------------------- *)

VARIABLES
    now,              \* Date.now()
    client,           \* platform.client is set
    access,           \* Client.access
    accessUpdatedAt,  \* Client.accessUpdatedAt
    devices,          \* Client.devices
    pc,               \* where each call of updateDevices() stands
    timer,            \* setInterval has been called
    accessories,      \* platform.accessories
    hostCache,        \* cached accessories the host has yet to restore
    registered,       \* UUIDs of the accessories the host bridges
    polled,           \* Client.devices is the array the last sync cycle received
    ev,               \* what the last step did
    data,             \* accessory.context.device.data of the accessory read
    tvocUnit,         \* platform.config.tvocUnit
    services,         \* what the accessory's `services` getter returns
    result            \* how the last characteristic read ended

\* the state of one QingpingAirMonitorAccessory and of its reads
accVars == <<data, tvocUnit, services, result>>

\* the state of the platform, of its client and of the host
platformVars == <<now, client, access, accessUpdatedAt, devices, pc, timer,
                  accessories, hostCache, registered, polled, ev>>

vars == <<now, client, access, accessUpdatedAt, devices, pc, timer,
          accessories, hostCache, registered, polled, ev, accVars>>

\* op: the step; proc: the call of updateDevices() it belongs to; ok: the call
\* has not rejected; tokenReq, getReq: the step sent a token / device-list
\* request; body: response.body.devices of a device-list response;
\* reg, unreg: the UUIDs the step handed to registerPlatformAccessories and
\* to unregisterPlatformAccessories
NoBody == [type |-> "none", items |-> <<>>]
NoEvent == [op |-> "none", proc |-> "none", ok |-> TRUE, tokenReq |-> FALSE,
            getReq |-> FALSE, bearer |-> "none", body |-> NoBody,
            reg |-> {}, unreg |-> {}, unhandled |-> FALSE]

Event(op, p) == [NoEvent EXCEPT !.op = op, !.proc = p]

(* --------------------------- Client (client.ts) ------------------------ *)

\* the condition of the `if` that opens updateDevices()
NeedsRefresh ==
    \/ access = NoAccess
    \/ accessUpdatedAt + access.expires_in * 1000 > now

\* the getter refreshBefore: null (here <<>>) without a credential, else a
\* time 99% of the lifetime after the moment it is read; nothing calls it
refreshBefore ==
    IF access = NoAccess THEN <<>> ELSE <<now + access.expires_in * 990>>

\* Array.isArray(response.body.devices)
IsArray(v) == v.type = "array"

\* slips of the assignment below: the guard forgotten, and the new array
\* appended to the old one
StoreDevicesUnguarded(body) == body.items
StoreDevicesMerged(body) == IF IsArray(body) THEN devices \o body.items ELSE devices

\* the assignment that ends updateDevices()
StoreDevices(body) == IF IsArray(body) THEN body.items ELSE devices

(* ------------------------- Platform (platform.ts) ---------------------- *)

UUIDs(accs) == {accs[i].UUID : i \in 1..Len(accs)}

\* this.client.devices.filter(d => Object.values(ProductId).includes(d?.info?.product?.id))
IsAvailable(device) == device.id \in ProductIdValues
AvailableDevices(devs) == SelectSeq(devs, IsAvailable)

FindAccessoryNone(accs, uuid) == 0

\* this.accessories.find(a => a.UUID === uuid): index of the first match, 0 if none
FindAccessory(accs, uuid) ==
    IF \E i \in 1..Len(accs) : accs[i].UUID = uuid
    THEN CHOOSE i \in 1..Len(accs) :
            /\ accs[i].UUID = uuid
            /\ \A j \in 1..(i - 1) : accs[j].UUID # uuid
    ELSE 0

\* the `switch (device.info.product.id)` that decides whether a new
\* accessory is built and registered
IsSupportedProduct(id) == id = Num(AirMonitor)

\* the first loop of discoverDevices(): st is the loop state
\* (accs: this.accessories, disc: discoveredAccessories,
\*  reg: UUIDs handed to registerPlatformAccessories)
RECURSIVE DiscoverLoop(_, _)
DiscoverLoop(avail, st) ==
    IF avail = <<>> THEN st
    ELSE LET device == Head(avail)
             uuid   == generate(device.mac)
             disc   == st.disc \cup {uuid}
             i      == FindAccessory(st.accs, uuid)
             next   ==
                 IF i # 0
                 THEN [st EXCEPT !.disc = disc,
                                 !.accs = [st.accs EXCEPT ![i].device = device]]
                 ELSE IF IsSupportedProduct(device.id)
                 THEN [st EXCEPT !.disc = disc,
                                 !.accs = Append(st.accs, Accessory(device)),
                                 !.reg = st.reg \cup {uuid}]
                 ELSE [st EXCEPT !.disc = disc]
         IN  DiscoverLoop(Tail(avail), next)

\* the second loop of discoverDevices(): the accessories handed to
\* unregisterPlatformAccessories
Unregistered(accs, disc) == {u \in UUIDs(accs) : u \notin disc}

\* discoverDevices() from the line after the try/catch to its end
Reconcile(accs, devs) ==
    LET st == DiscoverLoop(AvailableDevices(devs),
                           [accs |-> accs, disc |-> {}, reg |-> {}])
    IN  [accs |-> st.accs, reg |-> st.reg, unreg |-> Unregistered(st.accs, st.disc)]

\* the host's bookkeeping of registerPlatformAccessories / unregisterPlatformAccessories
HostApply(regd, r) == (regd \cup r.reg) \ r.unreg

(* ------------------ accessory (platform-accessory.ts) ------------------ *)

\* the reading kinds of QingpingDeviceData that the accessory reads
Kinds == {"temperature", "humidity", "co2", "pm25", "tvoc", "battery"}

\* data[k] is the `value` of the reading of kind k; Absent when the snapshot
\* has no reading of that kind
Absent == [type |-> "undefined", num |-> 0, str |-> ""]

\* readings a snapshot may carry, chosen around the thresholds of the levels
Pm25Values == {Absent} \cup {Num(n) : n \in {0, 12, 35, 55, 150, 151}}

TvocValues == {Absent} \cup {Num(n) : n \in {0, 50, 65, 100, 220, 660, 2000, 2001}}

Co2Values == {Absent} \cup {Num(n) : n \in {900, 1000, 1250, 1500, 2000, 2001}}

TemperatureValues == {Absent, Num(0), Num(25)}

HumidityValues == {Num(40)}

\* a battery reading need not carry a number
BatteryValues == {Absent, Str("n/a")} \cup {Num(n) : n \in {0, 20, 21}}

\* config.tvocUnit: set to 'ppb', or left unset
TvocUnits == {"ppb", "undefined"}

\* Characteristic values are numbers with two decimals, held as hundredths
Scale == 100

Fixed(n) == n * Scale

\* the factor 3.19 of the VOCDensity handler, in hundredths
PpbFactor == 319

\* what a characteristic read hands back: a value or an error given to the
\* callback, or an exception thrown by the handler
NoResult == [op |-> "none", outcome |-> "none", num |-> 0, str |-> ""]

Value(op, v) ==
    [op |-> op, outcome |-> "value", num |-> Fixed(v.num), str |-> v.str]

Enum(op, name) == [op |-> op, outcome |-> "value", num |-> 0, str |-> name]

Failure(op, how) == [op |-> op, outcome |-> how, num |-> 0, str |-> ""]

\* JavaScript truthiness of a reading's value
Truthy(v) ==
    CASE v.type = "number" -> v.num # 0
      [] v.type = "string" -> v.str # ""
      [] OTHER             -> FALSE

onCharacteristicGetValue(d, field) ==
    IF ~Truthy(d[field])
    THEN Failure(field, "error")
    ELSE Value(field, d[field])

\* the `levels` list of getAirQuality()
levels == <<
    [key |-> "under", airQuality |-> "EXCELLENT",
     condition |-> [pm25 |-> 12, tvoc |-> 65, co2 |-> 1000]],
    [key |-> "under", airQuality |-> "GOOD",
     condition |-> [pm25 |-> 35, tvoc |-> 220, co2 |-> 1250]],
    [key |-> "under", airQuality |-> "FAIR",
     condition |-> [pm25 |-> 55, tvoc |-> 660, co2 |-> 1500]],
    [key |-> "under", airQuality |-> "INFERIOR",
     condition |-> [pm25 |-> 150, tvoc |-> 2000, co2 |-> 2000]],
    [key |-> "over", airQuality |-> "POOR",
     condition |-> [pm25 |-> 150, tvoc |-> 2000, co2 |-> 2000]] >>

MatchInclusive(d, key, dataKey, targetValue) ==
    /\ d[dataKey] # Absent
    /\ IF key = "under"
       THEN d[dataKey].num <= targetValue
       ELSE d[dataKey].num >= targetValue

MatchIfPresent(d, key, dataKey, targetValue) ==
    \/ d[dataKey] = Absent
    \/ IF key = "under"
       THEN d[dataKey].num < targetValue
       ELSE d[dataKey].num > targetValue

\* one element pushed to `matches`
Match(d, key, dataKey, targetValue) ==
    /\ d[dataKey] # Absent
    /\ IF key = "under"
       THEN d[dataKey].num < targetValue
       ELSE d[dataKey].num > targetValue

\* matches.every((x) => x) for one level
Matches(d, level) ==
    \A dataKey \in DOMAIN level.condition :
        Match(d, level.key, dataKey, level.condition[dataKey])

\* the loop over the levels, from the i-th on
RECURSIVE AirQualityFrom(_, _)
AirQualityFrom(d, i) ==
    IF i > Len(levels) THEN "UNKNOWN"
    ELSE IF Matches(d, levels[i]) THEN levels[i].airQuality
    ELSE AirQualityFrom(d, i + 1)

getAirQuality(d) == AirQualityFrom(d, 1)

VOCDensityAnyUnit(d, unit) ==
    IF d["tvoc"] = Absent
    THEN Failure("VOCDensity", "throw")
    ELSE [op |-> "VOCDensity", outcome |-> "value", str |-> "",
          num |-> d["tvoc"].num * PpbFactor]

\* the 'get' handler of VOCDensity
VOCDensity(d, unit) ==
    IF d["tvoc"] = Absent
    THEN Failure("VOCDensity", "throw")
    ELSE [op |-> "VOCDensity", outcome |-> "value", str |-> "",
          num |-> IF unit = "ppb" THEN d["tvoc"].num * PpbFactor
                                  ELSE Fixed(d["tvoc"].num)]

\* the 'get' handler of CarbonDioxideDetected
CarbonDioxideDetected(d) ==
    IF d["co2"] = Absent
    THEN Failure("CarbonDioxideDetected", "throw")
    ELSE Enum("CarbonDioxideDetected",
              IF d["co2"].num > 2000 THEN "CO2_LEVELS_ABNORMAL"
                                     ELSE "CO2_LEVELS_NORMAL")

getBatteryServiceIfPresent(d) ==
    IF d["battery"] = Absent
    THEN {}
    ELSE {"BatteryService"}

\* getBatteryService(): the battery service, or none
getBatteryService(d) ==
    IF d["battery"] = Absent \/ d["battery"].type # "number"
    THEN {}
    ELSE {"BatteryService"}

\* the services every accessory gets
SensorServices ==
    {"TemperatureSensor", "HumiditySensor", "AirQualitySensor", "CarbonDioxideSensor"}

\* the service whose characteristic reads the reading of kind `field`
\* through onCharacteristicGetValue
ServiceOf(field) ==
    CASE field = "battery"     -> "BatteryService"
      [] field = "temperature" -> "TemperatureSensor"
      [] field = "humidity"    -> "HumiditySensor"
      [] field = "pm25"        -> "AirQualitySensor"
      [] field = "co2"         -> "CarbonDioxideSensor"

\* no accessory object yet: nothing to read
NoData == [k \in Kinds |-> Absent]

(* --------------------------- initial state ----------------------------- *)

\* The constructor has run: initialize() has either thrown before creating
\* the client (config.appSecret missing) or created it and started
\* updateDevices(), which, having no credential, has sent the token request.
\* The host holds the accessories it persisted and bridges every one of them.
Init ==
    /\ now = 0
    /\ client \in BOOLEAN
    /\ access = NoAccess
    /\ accessUpdatedAt = -1
    /\ devices = <<>>
    /\ pc = [p \in Procs |->
               IF p = "initialize" THEN (IF client THEN "token" ELSE "done") ELSE "idle"]
    /\ timer = FALSE
    /\ accessories = <<>>
    /\ hostCache \in SUBSET CachedAccessories
    /\ registered = {a.UUID : a \in hostCache}
    /\ polled = FALSE
    /\ ev = [Event("construct", "initialize") EXCEPT !.tokenReq = client, !.ok = client]
    /\ data = NoData
    /\ tvocUnit = "undefined"
    /\ services = {}
    /\ result = NoResult

(* ------------------------------ actions -------------------------------- *)

\* time passes
Advance(d) ==
    /\ now + d <= MaxNow
    /\ now' = now + d
    /\ ev' = Event("advance", "none")
    /\ UNCHANGED <<client, access, accessUpdatedAt, devices, pc, timer,
                   accessories, hostCache, registered, polled>>
    /\ UNCHANGED accVars

\* configureAccessory(accessory): the host restores one cached accessory
ConfigureAccessory(a) ==
    /\ a \in hostCache
    /\ hostCache' = hostCache \ {a}
    /\ accessories' = IF IsSupportedProduct(a.device.id)
                      THEN Append(accessories, a) ELSE accessories
    /\ ev' = Event("configureAccessory", "none")
    /\ UNCHANGED <<now, client, access, accessUpdatedAt, devices, pc, timer,
                   registered, polled>>
    /\ UNCHANGED accVars

\* the token in the authorization header of the device-list request: the
\* options of got.get() are responseType and searchParams, and no header
GetAuthorization == "none"

\* updateDevices() up to its first await: the request it sends
StartUpdate(p) ==
    /\ pc' = [pc EXCEPT ![p] = IF NeedsRefresh THEN "token" ELSE "get"]
    /\ ev' = [Event("updateDevices", p) EXCEPT !.tokenReq = NeedsRefresh,
                                               !.getReq = ~NeedsRefresh,
                                               !.bearer = GetAuthorization]

\* the rest of the caller once its updateDevices() has settled
\* (ok: it resolved; devs: Client.devices at that moment; body: the devices
\* field received, if any)
Settle(p, op, ok, devs, body) ==
    /\ devices' = devs
    /\ IF p = "discover"
       THEN \* discoverDevices(): the catch only logs, the loops run either way
            LET r == Reconcile(accessories, devs)
            IN  /\ accessories' = r.accs
                /\ registered' = HostApply(registered, r)
                /\ polled' = IsArray(body)
                /\ ev' = [Event(op, p) EXCEPT !.ok = ok, !.body = body,
                                              !.reg = r.reg, !.unreg = r.unreg]
                /\ pc' = [pc EXCEPT ![p] = "idle"]
                /\ UNCHANGED timer
       ELSE IF p = "initialize"
       THEN \* initialize(): setInterval on success, the catch logs on failure
            /\ timer' = ok
            /\ pc' = [pc EXCEPT ![p] = "done"]
            /\ ev' = [Event(op, p) EXCEPT !.ok = ok, !.body = body]
            /\ polled' = (polled /\ ~IsArray(body))
            /\ UNCHANGED <<accessories, registered>>
       ELSE \* the interval callback drops the promise: nothing handles its
            \* rejection
            /\ pc' = [pc EXCEPT ![p] = "idle"]
            /\ ev' = [Event(op, p) EXCEPT !.ok = ok, !.body = body,
                                          !.unhandled = ~ok]
            /\ polled' = (polled /\ ~IsArray(body))
            /\ UNCHANGED <<timer, accessories, registered>>

\* the DID_FINISH_LAUNCHING listener: discoverDevices() up to its await
DidFinishLaunching ==
    /\ hostCache = {}
    /\ pc["discover"] = "idle"
    /\ IF client
       THEN StartUpdate("discover")
       ELSE /\ ev' = Event("discoverSkipped", "discover")
            /\ UNCHANGED pc
    /\ UNCHANGED <<now, client, access, accessUpdatedAt, devices, timer,
                   accessories, hostCache, registered, polled>>
    /\ UNCHANGED accVars

\* the interval fires: () => this.client?.updateDevices()
TimerTick ==
    /\ timer
    /\ pc["timer"] = "idle"
    /\ StartUpdate("timer")
    /\ UNCHANGED <<now, client, access, accessUpdatedAt, devices, timer,
                   accessories, hostCache, registered, polled>>
    /\ UNCHANGED accVars

\* a slip of the action below: the token stored, its issue time not yet
TokenResponseTorn(p, body) ==
    /\ pc[p] = "token"
    /\ access' = body
    /\ pc' = [pc EXCEPT ![p] = "get"]
    /\ ev' = [Event("tokenResponse", p) EXCEPT !.getReq = TRUE,
                                               !.bearer = GetAuthorization]
    /\ UNCHANGED <<now, client, accessUpdatedAt, devices, timer, accessories,
                   hostCache, registered, polled>>
    /\ UNCHANGED accVars

\* refreshToken() resumes with the token response, then updateDevices()
\* sends the device-list request
TokenResponse(p, body) ==
    /\ pc[p] = "token"
    /\ accessUpdatedAt' = now
    /\ access' = body
    /\ pc' = [pc EXCEPT ![p] = "get"]
    /\ ev' = [Event("tokenResponse", p) EXCEPT !.getReq = TRUE,
                                               !.bearer = GetAuthorization]
    /\ UNCHANGED <<now, client, devices, timer, accessories, hostCache,
                   registered, polled>>
    /\ UNCHANGED accVars

\* a slip of the action below: the device-list request sent all the same
TokenFailureStillGets(p) ==
    /\ pc[p] = "token"
    /\ pc' = [pc EXCEPT ![p] = "get"]
    /\ ev' = [Event("tokenFailure", p) EXCEPT !.ok = FALSE, !.getReq = TRUE,
                                              !.bearer = GetAuthorization]
    /\ UNCHANGED <<now, client, access, accessUpdatedAt, devices, timer,
                   accessories, hostCache, registered, polled>>
    /\ UNCHANGED accVars

\* a slip of the action below: the credential dropped before the exchange
TokenFailureDropsAccess(p) ==
    /\ pc[p] = "token"
    /\ Settle(p, "tokenFailure", FALSE, devices, NoBody)
    /\ access' = NoAccess
    /\ accessUpdatedAt' = -1
    /\ UNCHANGED <<now, client, hostCache>>
    /\ UNCHANGED accVars

\* the token request fails: refreshToken() and updateDevices() reject
TokenFailure(p) ==
    /\ pc[p] = "token"
    /\ Settle(p, "tokenFailure", FALSE, devices, NoBody)
    /\ UNCHANGED <<now, client, access, accessUpdatedAt, hostCache>>
    /\ UNCHANGED accVars

\* updateDevices() resumes with the device-list response
GetResponse(p, body) ==
    /\ pc[p] = "get"
    /\ Settle(p, "getResponse", TRUE, StoreDevices(body), body)
    /\ UNCHANGED <<now, client, access, accessUpdatedAt, hostCache>>
    /\ UNCHANGED accVars

\* the device-list request fails: updateDevices() rejects
GetFailure(p) ==
    /\ pc[p] = "get"
    /\ Settle(p, "getFailure", FALSE, devices, NoBody)
    /\ UNCHANGED <<now, client, access, accessUpdatedAt, hostCache>>
    /\ UNCHANGED accVars

\* new QingpingAirMonitorAccessory(platform, accessory)
Construct ==
    /\ services = {}
    /\ services' = getBatteryService(data) \cup SensorServices
    /\ result' = NoResult
    /\ UNCHANGED <<data, tvocUnit>>
    /\ UNCHANGED platformVars

\* A sync cycle binds a newer snapshot to the accessory; the handlers
\* registered at construction stay. Of the readings the battery is the one
\* the constructor looked at, so it is the one that differs here: it is now v.
Rebind(v) ==
    /\ services # {}
    /\ v # data["battery"]
    /\ data' = [data EXCEPT !["battery"] = v]
    /\ result' = NoResult
    /\ UNCHANGED <<tvocUnit, services>>
    /\ UNCHANGED platformVars

\* a read of a characteristic bound to onCharacteristicGetValue
ReadValue(field) ==
    /\ ServiceOf(field) \in services
    /\ result' = onCharacteristicGetValue(data, field)
    /\ UNCHANGED <<data, tvocUnit, services>>
    /\ UNCHANGED platformVars

ReadAirQuality ==
    /\ "AirQualitySensor" \in services
    /\ result' = Enum("AirQuality", getAirQuality(data))
    /\ UNCHANGED <<data, tvocUnit, services>>
    /\ UNCHANGED platformVars

ReadVOCDensity ==
    /\ "AirQualitySensor" \in services
    /\ result' = VOCDensity(data, tvocUnit)
    /\ UNCHANGED <<data, tvocUnit, services>>
    /\ UNCHANGED platformVars

ReadCarbonDioxideDetected ==
    /\ "CarbonDioxideSensor" \in services
    /\ result' = CarbonDioxideDetected(data)
    /\ UNCHANGED <<data, tvocUnit, services>>
    /\ UNCHANGED platformVars

(* --------------------------- specifications ---------------------------- *)

\* The client on its own: the startup poll and the interval, with time
\* passing; the host restores nothing and never announces the launch.
InitClient ==
    /\ Init
    /\ hostCache = {}

NextClient ==
    \/ \E d \in Steps : Advance(d)
    \/ TimerTick
    \/ \E p \in Procs, body \in OauthAccess : TokenResponse(p, body)
    \/ \E p \in Procs : TokenFailure(p)
    \/ \E p \in Procs, body \in GetDevicesBodies : GetResponse(p, body)
    \/ \E p \in Procs : GetFailure(p)

SpecClient == InitClient /\ [][NextClient]_vars

\* The platform: the host restores its cache and announces the launch, the
\* startup poll and the sync cycles run; the clock stands still and the
\* interval does not fire.
NextPlatform ==
    \/ \E a \in CachedAccessories : ConfigureAccessory(a)
    \/ DidFinishLaunching
    \/ \E p \in Procs, body \in OauthAccess : TokenResponse(p, body)
    \/ \E p \in Procs : TokenFailure(p)
    \/ \E p \in Procs, body \in GetDevicesBodies : GetResponse(p, body)
    \/ \E p \in Procs : GetFailure(p)

SpecPlatform == Init /\ [][NextPlatform]_vars

\* The platform once its interval runs: the launch is announced with an
\* empty cache, the startup poll, the sync cycle and the interval's polls
\* interleave; the clock stands still.
InitSync ==
    /\ Init
    /\ client
    /\ hostCache = {}

NextSync ==
    \/ DidFinishLaunching
    \/ TimerTick
    \/ \E p \in Procs, body \in OauthAccess : TokenResponse(p, body)
    \/ \E p \in Procs : TokenFailure(p)
    \/ \E p \in Procs, body \in GetDevicesBodies : GetResponse(p, body)
    \/ \E p \in Procs : GetFailure(p)

SpecSync == InitSync /\ [][NextSync]_vars

\* One accessory on its own: a snapshot is bound to it, it is constructed
\* and its characteristics are read; the platform does nothing.
InitAccessory ==
    /\ now = 0
    /\ client = FALSE
    /\ access = NoAccess
    /\ accessUpdatedAt = -1
    /\ devices = <<>>
    /\ pc = [p \in Procs |-> IF p = "initialize" THEN "done" ELSE "idle"]
    /\ timer = FALSE
    /\ accessories = <<>>
    /\ hostCache = {}
    /\ registered = {}
    /\ polled = FALSE
    /\ ev = [Event("construct", "initialize") EXCEPT !.ok = FALSE]
    /\ data \in [temperature : TemperatureValues, humidity : HumidityValues,
                 co2 : Co2Values, pm25 : Pm25Values, tvoc : TvocValues,
                 battery : BatteryValues]
    /\ tvocUnit \in TvocUnits
    /\ services = {}
    /\ result = NoResult

NextAccessory ==
    \/ Construct
    \/ \E v \in BatteryValues : Rebind(v)
    \/ \E field \in Kinds \ {"tvoc"} : ReadValue(field)
    \/ ReadAirQuality
    \/ ReadVOCDensity
    \/ ReadCarbonDioxideDetected

SpecAccessory == InitAccessory /\ [][NextAccessory]_vars

(* ------------------------- claims: the client -------------------------- *)

\* the refresh deadline of the cached credential as documented: its issue
\* time plus 99% of its lifetime (expires_in is in seconds, the clock in ms)
RefreshDeadline == accessUpdatedAt + access.expires_in * 990

\* C1: a device-list response whose `devices` field is not an array leaves
\* Client.devices exactly as it was, whatever it held.
C1_MalformedKeepsDevices ==
    [][(ev'.op = "getResponse" /\ ~IsArray(ev'.body)) => devices' = devices]_vars

\* a non-array response has arrived while the cache held devices
C1_Witness ==
    /\ ev.op = "getResponse"
    /\ ~IsArray(ev.body)
    /\ devices # <<>>

\* C2: after a device-list response whose `devices` field is an array L,
\* Client.devices is exactly L: nothing of the old cache survives, nothing
\* is merged.
C2_ArrayReplacesDevices ==
    (ev.op = "getResponse" /\ IsArray(ev.body)) => devices = ev.body.items

\* a later poll (the interval's) has replaced the cache by a one-device array
C2_Witness ==
    /\ ev.op = "getResponse"
    /\ ev.proc = "timer"
    /\ IsArray(ev.body)
    /\ Len(ev.body.items) = 1
    /\ devices = ev.body.items

\* C3: updateDevices() called with a cached credential before its refresh
\* deadline sends no token request and leaves the credential and its issue
\* time alone.
C3_NoRefreshBeforeDeadline ==
    [][(ev'.op = "updateDevices" /\ access # NoAccess /\ now < RefreshDeadline)
          => (~ev'.tokenReq /\ access' = access /\ accessUpdatedAt' = accessUpdatedAt)]_vars

\* C4: updateDevices() called with a cached credential at or after its
\* refresh deadline sends the token request first, and the device-list
\* request only after it.
C4_RefreshAtDeadline ==
    [][(ev'.op = "updateDevices" /\ access # NoAccess /\ now >= RefreshDeadline)
          => (ev'.tokenReq /\ ~ev'.getReq)]_vars

SupportedIds(L) ==
    {generate(L[i].mac) : i \in {j \in 1..Len(L) : IsSupportedProduct(L[j].id)}}

\* the snapshots a poll holds of the device with this id
Snapshots(L, uuid) ==
    {L[i] : i \in {j \in 1..Len(L) : generate(L[j].mac) = uuid}}

\* the device bound to the accessory with this id: its context.device when
\* the platform tracks it, the persisted one when the host alone holds it
BoundDevice(accs, uuid) ==
    IF FindAccessory(accs, uuid) # 0
    THEN accs[FindAccessory(accs, uuid)].device
    ELSE (CHOOSE a \in CachedAccessories : a.UUID = uuid).device

\* the step ends a sync cycle (discoverDevices() has run to its end)
EndsCycle(e) == e.proc = "discover" /\ e.op \in {"getResponse", "getFailure", "tokenFailure"}

\* the step ends a sync cycle whose poll returned an array of devices
EndsPolledCycle(e) == e.proc = "discover" /\ e.op = "getResponse" /\ IsArray(e.body)

\* C6: a sync cycle whose poll succeeded, with P the accessory set before
\* and N the supported devices polled, registers exactly N \ P, unregisters
\* exactly P \ N, and rebinds the accessories of P \cap N to their snapshot
\* of the poll.
C6_ReconcileDiff ==
    [][EndsPolledCycle(ev') =>
          LET P == UUIDs(accessories)
              N == SupportedIds(ev'.body.items)
          IN  /\ ev'.reg = N \ P
              /\ ev'.unreg = P \ N
              /\ \A u \in P \cap N :
                    BoundDevice(accessories', u) \in Snapshots(ev'.body.items, u)]_vars

\* C7: after a sync cycle whose poll succeeded, platform.accessories holds
\* exactly the supported devices of the device set reconciled against:
\* no orphan, none missing.
C7_AccessoriesMatchDevices ==
    EndsPolledCycle(ev) => UUIDs(accessories) = SupportedIds(devices)

\* C8: a sync cycle that polls the very array the previous cycle polled
\* leaves the accessory set as it was and registers and unregisters nothing.
C8_RepollIdempotent ==
    [][(EndsPolledCycle(ev') /\ polled /\ ev'.body.items = devices) =>
          /\ UUIDs(accessories') = UUIDs(accessories)
          /\ ev'.reg = {}
          /\ ev'.unreg = {}]_vars

\* C9: a sync cycle whose updateDevices() failed registers, unregisters and
\* rebinds nothing.
C9_FailedCycleAborts ==
    [][(EndsCycle(ev') /\ ~ev'.ok) =>
          /\ accessories' = accessories
          /\ registered' = registered
          /\ ev'.reg = {}
          /\ ev'.unreg = {}]_vars

\* C10: once the host has restored its cache, no accessory that the host
\* bridges or that platform.accessories holds is bound to a device of an
\* unsupported product.
C10_NoUnsupportedAccessory ==
    hostCache = {} =>
        \A u \in registered \cup UUIDs(accessories) :
            IsSupportedProduct(BoundDevice(accessories, u).id)

(* ------------------------ claims: poll cycles -------------------------- *)

\* the step is the failure of a poll: updateDevices() has rejected
FailsPoll(e) == e.op \in {"tokenFailure", "getFailure"}

\* C17: a poll that fails, in the startup cycle, in the sync cycle or in a
\* tick of the interval, is caught by the platform: its rejection is never
\* left unhandled.
C17_PollErrorsCaught ==
    FailsPoll(ev) => ~ev.unhandled

\* C18: once a poll has failed and initialize() has returned, the interval
\* is running.
C18_TimerRunsAfterFailure ==
    (FailsPoll(ev) /\ pc["initialize"] = "done") => timer

\* C19: a poll of the interval that returns an array binds to every
\* accessory whose device it reports a snapshot of that poll.
C19_TickRebinds ==
    [][(ev'.proc = "timer" /\ ev'.op = "getResponse" /\ IsArray(ev'.body)) =>
          \A i \in 1..Len(accessories') :
              LET S == Snapshots(ev'.body.items, accessories'[i].UUID)
              IN  S # {} => accessories'[i].device \in S]_vars

\* C20: a device-list request carries the access token of the credential
\* cached when it is sent.
C20_RequestCarriesToken ==
    ev.getReq => ev.bearer = access.access_token

(* ------------------------ claims: the accessory ------------------------ *)

\* the three readings the air-quality level is computed from
AirKinds == {"pm25", "tvoc", "co2"}

AllPresent == \A k \in AirKinds : data[k] # Absent

\* the level table as documented: the first row, top to bottom, whose three
\* strict comparisons all hold
Classify(p, t, c) ==
    IF      p < 12  /\ t < 65   /\ c < 1000 THEN "EXCELLENT"
    ELSE IF p < 35  /\ t < 220  /\ c < 1250 THEN "GOOD"
    ELSE IF p < 55  /\ t < 660  /\ c < 1500 THEN "FAIR"
    ELSE IF p < 150 /\ t < 2000 /\ c < 2000 THEN "INFERIOR"
    ELSE IF p > 150 /\ t > 2000 /\ c > 2000 THEN "POOR"
    ELSE "UNKNOWN"

\* C11: when pm25, tvoc and co2 are all present, a read of the air quality
\* returns the level of the first row of the table whose strict comparisons
\* all hold, and UNKNOWN when no row matches.
C11_FirstMatchingLevel ==
    (result.op = "AirQuality" /\ AllPresent) =>
        /\ result.outcome = "value"
        /\ result.str = Classify(data["pm25"].num, data["tvoc"].num, data["co2"].num)

\* pm25 = 35 equals the GOOD threshold: the read falls through to FAIR
C11_Witness ==
    /\ result.op = "AirQuality"
    /\ data["pm25"] = Num(35)
    /\ data["tvoc"] = Num(50)
    /\ data["co2"] = Num(900)
    /\ result.str = "FAIR"

\* C12: when pm25, tvoc or co2 is absent, a read of the air quality returns
\* UNKNOWN whatever the readings that are present.
C12_AbsentKindIsUnknown ==
    (result.op = "AirQuality" /\ ~AllPresent) =>
        /\ result.outcome = "value"
        /\ result.str = "UNKNOWN"

\* pm25 is absent while tvoc and co2 are below the EXCELLENT thresholds
C12_Witness ==
    /\ result.op = "AirQuality"
    /\ data["pm25"] = Absent
    /\ data["tvoc"] = Num(50)
    /\ data["co2"] = Num(900)
    /\ result.str = "UNKNOWN"

\* the reading kind a value read reports, if the last read was one
ReadKind ==
    IF result.op = "VOCDensity" THEN "tvoc"
    ELSE IF result.op \in Kinds THEN result.op
    ELSE "none"

\* the value the documented conversion gives a reading of kind k, in hundredths
Resolved(k) ==
    IF k = "tvoc" /\ tvocUnit = "ppb"
    THEN data[k].num * 319
    ELSE data[k].num * 100

\* C13: a read of a reading kind returns the reading's value when the reading
\* is present and not zero, and otherwise hands a missing-reading error to
\* its caller; no read throws.
C13_MissingReadingError ==
    /\ result.outcome # "throw"
    /\ ReadKind # "none" =>
          IF data[ReadKind] # Absent /\ data[ReadKind] # Num(0)
          THEN /\ result.outcome = "value"
               /\ result.num = Resolved(ReadKind)
               /\ result.str = data[ReadKind].str
          ELSE result.outcome = "error"

\* C14: a read of the battery yields Low for a percentage of at most 20 and
\* Normal for a percentage above 20.
C14_BatteryLowAtTwenty ==
    (result.op = "battery" /\ data["battery"].type = "number") =>
        /\ result.outcome = "value"
        /\ result.str = IF data["battery"].num <= 20
                        THEN "BATTERY_LEVEL_LOW"
                        ELSE "BATTERY_LEVEL_NORMAL"

\* C15: a read of the VOC density of a present tvoc reading returns the raw
\* value times 3.19 when tvocUnit is 'ppb' and the raw value otherwise.
C15_PpbConversion ==
    (result.op = "VOCDensity" /\ data["tvoc"] # Absent) =>
        /\ result.outcome = "value"
        /\ IF tvocUnit = "ppb"
           THEN result.num = data["tvoc"].num * 319
           ELSE result.num = data["tvoc"].num * 100

\* raw 100 in ppb reads as 319.00
C15_Witness ==
    /\ result.op = "VOCDensity"
    /\ tvocUnit = "ppb"
    /\ data["tvoc"] = Num(100)
    /\ result.num = 31900

\* C16: the services of an accessory just constructed contain the battery
\* service exactly when the bound snapshot has a battery reading whose value
\* is a number, and always the temperature, humidity, air-quality and
\* carbon-dioxide sensors.
C16_BatteryIffNumeric ==
    [][(services = {} /\ services' # {}) =>
          /\ ("BatteryService" \in services') <=>
                (data["battery"] # Absent /\ data["battery"].type = "number")
          /\ services' \ {"BatteryService"} = SensorServices]_vars

\* an accessory without battery service whose battery reading is not a number
C16_Witness ==
    /\ services = SensorServices
    /\ data["battery"] = Str("n/a")

(* ------------------ claims: calls and their interleaving --------------- *)

\* the caller's updateDevices() is not in flight
NotCalling(p, at) == at[p] \in {"idle", "done"}

\* C21: within one updateDevices() call the token request, if any, is sent
\* first and alone; the device-list request is sent once, either at the
\* start of a call that sends no token request or when the token response
\* arrives; a failed token request ends the call with no device-list
\* request and the device cache unchanged; neither request is repeated.
C21_SequentialUnretried ==
    [][LET p == ev'.proc
       IN  /\ ev'.tokenReq =>
                 /\ ev'.op = "updateDevices"
                 /\ NotCalling(p, pc)
                 /\ ~ev'.getReq
                 /\ pc'[p] = "token"
           /\ ev'.getReq =>
                 /\ pc'[p] = "get"
                 /\ \/ ev'.op = "updateDevices" /\ NotCalling(p, pc)
                    \/ ev'.op = "tokenResponse" /\ pc[p] = "token"
           /\ ev'.op = "tokenFailure" =>
                 /\ pc[p] = "token"
                 /\ ~ev'.getReq
                 /\ ~ev'.tokenReq
                 /\ devices' = devices
                 /\ NotCalling(p, pc')
           /\ ev'.op \in {"getResponse", "getFailure"} =>
                 /\ pc[p] = "get"
                 /\ ~ev'.getReq
                 /\ ~ev'.tokenReq
                 /\ NotCalling(p, pc')]_vars

\* the token request of a tick has failed while the cache holds a poll
C21_Witness ==
    /\ ev.op = "tokenFailure"
    /\ ev.proc = "timer"
    /\ devices # <<>>
    /\ pc["timer"] = "idle"

\* C22: whatever calls overlap, a step changes the device cache only by
\* replacing it with the whole devices array of the response it receives,
\* and changes the credential only by storing the token response together
\* with its time of arrival; the credential and its issue time are set or
\* unset together.
C22_WholeValueSwaps ==
    [][/\ devices' # devices =>
             /\ ev'.op = "getResponse"
             /\ IsArray(ev'.body)
             /\ devices' = ev'.body.items
       /\ <<access', accessUpdatedAt'>> # <<access, accessUpdatedAt>> =>
             /\ ev'.op = "tokenResponse"
             /\ access' \in OauthAccess
             /\ accessUpdatedAt' = now'
       /\ (access' = NoAccess) <=> (accessUpdatedAt' = -1)]_vars

\* the sync cycle and a tick of the interval both await their device list
\* while the cache holds an earlier poll and a credential is stored
C22_Witness ==
    /\ pc["discover"] = "get"
    /\ pc["timer"] = "get"
    /\ devices # <<>>
    /\ access \in OauthAccess
    /\ accessUpdatedAt = now

(* ---------------------- claims: the accessory set ---------------------- *)

\* C23: no two accessories of platform.accessories have the same UUID, and
\* the UUID of each is the one generated from the mac address of the device
\* bound to it.
C23_UniqueStableIds ==
    /\ \A i, j \in 1..Len(accessories) :
           accessories[i].UUID = accessories[j].UUID => i = j
    /\ \A i \in 1..Len(accessories) :
           accessories[i].UUID = generate(accessories[i].device.mac)

\* a sync cycle has polled a list that names mac B twice and tracks one
\* accessory for it
C23_Witness ==
    /\ EndsPolledCycle(ev)
    /\ Len(ev.body.items) = 2
    /\ \A i \in 1..2 : ev.body.items[i].mac = "B"
    /\ ev.body.items[1] # ev.body.items[2]
    /\ ev.reg = {generate("B")}
    /\ FindAccessory(accessories, generate("B")) # 0

\* C24: after a sync cycle whose poll succeeded, every accessory of
\* platform.accessories is registered with the host: what the cycle
\* unregistered has left the set.
C24_AccessoriesAreRegistered ==
    EndsPolledCycle(ev) => UUIDs(accessories) \subseteq registered

\* C25: a sync cycle whose poll succeeded and reports a supported device
\* that the poll of the previous cycle did not report leaves that device's
\* accessory registered with the host.
C25_ReappearedIsRegistered ==
    [][(EndsPolledCycle(ev') /\ polled) =>
          \A u \in SupportedIds(ev'.body.items) \ SupportedIds(devices) :
              u \in registered']_vars

====
